---- MODULE Spec2Model ----
(***************************************************************************)
(* Model of the MCP protocol engine of devOpifex/bond (mcp/mcp.go): the    *)
(* correlation core (callWithTimeout, the pending table, the per-request   *)
(* timers), the response dispatcher (handleResponses, dispatchToHandler),  *)
(* the process lifecycle (Start, Stop, the exit waiter) and the child.     *)
(*                                                                         *)
(* Goroutines are modelled as processes whose steps are the critical       *)
(* sections and channel operations of the code.  Every Call runs in a      *)
(* goroutine of its own, whose position is kept in its pendingRequest.     *)
(* A panic of any goroutine terminates the whole program: it is recorded   *)
(* in crashed and disables every action.                                   *)
(***************************************************************************)
EXTENDS Integers, Sequences, FiniteSets, TLC

\* ------------------------------------------------------------------ bounds
MaxCalls == 2     \* Calls that get past the running check, in total
MaxLines == 2     \* lines the child writes to its stdout, in total
MaxStarts == 2    \* commands created by Start, in total
MaxPipe == 1      \* lines buffered between the child and the dispatcher

\* --------------------------------------------------------------- constants
InitialNextID == 1            \* NewMCP: nextID: 1
InitialTimeout == 30          \* NewMCP: defaultTimeout: 30 * time.Second
ChanCap == 1                  \* make(chan *Response, 1)

Gens == 1..MaxStarts
ReqIdx == 1..MaxCalls

\* values given to SetDefaultTimeout: a negative, the zero and positive ones
Timeouts == {-1, 0, InitialTimeout}

ListChanged == "notifications/tools/list_changed"
Methods == {ListChanged, "other"}

\* ------------------------------------------------------------ wire values
\* The id of a line of the child: absent (nil), a JSON number (kept in
\* halves: v = 3 is the number 1.5, which json.Unmarshal stores as float64)
\* or a JSON string.
NoId == [k |-> "none", v |-> 0]
NumId(h) == [k |-> "num", v |-> h]
StrId(s) == [k |-> "str", v |-> s]
IdVals == {NoId} \cup {NumId(h) : h \in 2..(2 * MaxCalls + 1)} \cup {StrId(1)}

\* Shapes of the result member of a line (Response.Result, type any).
MethodRes(m) == "method:" \o m
ResShapes == {"nil", "scalar", "map", "caps"} \cup {MethodRes(m) : m \in Methods}
\* Shapes of the error member (Response.Error, *Error).
ErrShapes == {"nil", "error"}

\* A line of the child: bad (not JSON), or an object with the members id,
\* result, error and method ("" when absent).
Garbage == [bad |-> TRUE, id |-> NoId, res |-> "nil", err |-> "nil", meth |-> ""]
Line(i, r, e) == [bad |-> FALSE, id |-> i, res |-> r, err |-> e, meth |-> ""]
\* a JSON-RPC notification: {"jsonrpc":"2.0","method":m}
Notification(m) == [bad |-> FALSE, id |-> NoId, res |-> "nil", err |-> "nil", meth |-> m]
\* json.Unmarshal(line, &response): Response has the fields JSONRPC, Result,
\* Error and ID; any other member of the object is dropped.
Unmarshal(l) == [l EXCEPT !.meth = ""]
Lines ==
  {Garbage} \cup {Line(i, r, e) : i \in IdVals, r \in ResShapes, e \in ErrShapes}
  \cup {Notification(m) : m \in Methods}

\* response.Result.(map[string]any) succeeds
IsMap(r) == r \in {"map", "caps"} \cup {MethodRes(m) : m \in Methods}
\* result["method"].(string), "" when absent
MethodOf(r) == IF \E m \in Methods : r = MethodRes(m)
               THEN CHOOSE m \in Methods : r = MethodRes(m)
               ELSE ""

\* int(floatID): conversion of a float64 to int truncates toward zero
IntOfFloat(h) == h \div 2

VARIABLES
  env,            \* the environment of the run: wiring, child and user
  running,        \* MCP.running
  nextID,         \* MCP.nextID
  defaultTimeout, \* MCP.defaultTimeout
  pending,        \* MCP.pending: id -> index of the pendingRequest, 0 = no entry
  handlers,       \* MCP.handlers: method -> handler, "none" = no entry
  capabilities,   \* MCP.capabilities
  reqs,           \* the pendingRequest objects allocated so far, each with
                  \* the position and the outcome of the Call that made it
  rejected,       \* flips whenever a Call of the user returns not-running
  mainPc,         \* position of the goroutine that invokes Start
  startRet,       \* what the last Start returned
  stopRet,        \* what the last Stop returned
  capsRet,        \* what the last GetCapabilities of the user returned
  gen,            \* number of commands created by Start so far
  child,          \* state of the child process of m.cmd
  cmdStdin,       \* m.cmdStdin: 0 = nil, g = the stdin pipe of command g
  stdinOpen,      \* the pipe of m.cmdStdin is open
  stdin,          \* fragments written to the child's stdin since the last newline
  childRead,      \* the last complete line the child read from its stdin
  stdoutQ,        \* per command: the lines in the stdout pipe
  disp,           \* per command: the dispatcher goroutine reading its stdout
  waiter,         \* per command: the exit waiter goroutine
  emitted,        \* number of lines written by the children
  invoked,        \* handler goroutines started so far: <<method, handler>>
  crashed,        \* "no", or the panic that ended the program
  toolRegistry,   \* MCP.toolRegistry: the tools registered, by name
  arg,            \* the input of the library call under study
  ret,            \* what the last library call returned
  toolPc,         \* position of the goroutine that calls ListTools or CallTool
  toolRet,        \* how the last ListTools or CallTool was served
  stdio,          \* the StdioMCP provider
  registered      \* history: per method, the handler of the last registration

engine == <<running, nextID, defaultTimeout, pending, handlers, capabilities>>
starter == <<mainPc, startRet>>
proc == <<gen, child, cmdStdin, stdinOpen>>
inpipe == <<stdin, childRead>>
outpipe == <<stdoutQ, emitted>>
facade == <<toolRegistry, arg, ret>>
aside == <<toolPc, toolRet, stdio, registered>>
rest == <<env, facade, aside, stopRet, capsRet>>
vars == <<env, engine, reqs, rejected, starter, stopRet, capsRet, proc, inpipe,
          outpipe, disp, waiter, invoked, crashed, facade, aside>>

\* ------------------------------------------------------- pendingRequest
NoResp == Line(NoId, "nil", "nil")
NoOut == [kind |-> "none", resp |-> NoResp]
\* A return that turns a JSON-RPC error of the server into a failure of
\* the Call: the faulty variant that the verbatim return must rule out.
OutErrorAsFailure(k, l) ==
  IF k = "Response" /\ l.err # "nil"
  THEN [kind |-> "ServerError", resp |-> NoResp]
  ELSE [kind |-> k, resp |-> l]

\* what a Call returns: (response, nil) or (nil, error of kind k)
Out(k, l) == [kind |-> k, resp |-> l]

\* the timer of a request: AfterFunc is armed only for a positive timeout
ArmTimer(timeout) == IF timeout > 0 THEN "armed" ELSE "off"

\* &pendingRequest{response: make(chan *Response, 1), done: make(chan struct{})}
\* ctx: who issued the Call (the user, or GetCapabilities within Start);
\* pc: the position of the Call; out: what it returned.
NewReq(id, c, timeout) ==
  [id |-> id, ctx |-> c, pc |-> "reg", chan |-> <<>>, done |-> 0,
   timer |-> ArmTimer(timeout), out |-> NoOut]

\* pendingRequest.done: 0 while open, else who closed it
ClosedByTimer == 1    \* close(doneChan) in the timer callback
ClosedByExit == 2     \* close(req.done) in the exit waiter

\* timer.Stop(): prevents the callback only if it has not started yet
StopTimer(r) == IF r.timer = "armed" THEN [r EXCEPT !.timer = "off"] ELSE r

\* A counter that is not incremented: the faulty variant of getNextID that
\* the distinctness of ids must rule out.
GetNextIDStuck(n) == n

\* getNextID: the id handed out is the counter, which is then incremented
GetNextID(n) == n + 1

\* A guard that lets every Call through: the faulty variant that the
\* not-running property must rule out.
RunningCheckSkipped(run) == TRUE

\* the guard of callWithTimeout: if !m.running { return error }
RunningCheck(run) == run

\* A delete that leaves the table as it is: the faulty variant that the
\* clean-up after a failed write must rule out.
DeleteEntryKept(tbl, id) == tbl

\* delete(m.pending, id)
DeleteEntry(tbl, id) == [tbl EXCEPT ![id] = 0]

\* ------------------------------------------------------------ environment
\* The environment of a run is fixed at its start:
\* wiring "exec": the engine is built by NewMCP and the user calls Start,
\* which runs the command; the stdin pipe is an *os.File, whose Write holds
\* the descriptor's write lock until the whole line is written.
\* wiring "injected": the in-memory transport of TestMCPJSONRPC, which sets
\* cmdStdin, cmdStdout and running itself and starts handleResponses; the
\* writer is any io.WriteCloser, whose Write promises nothing to concurrent
\* callers, and the engine holds no lock around it.
\* lines: the lines the child may write to its stdout.
\* user: what the user's program does besides Start and Calls on a running
\* engine: "EarlyCall" (Calls also while the engine is not running),
\* "StartAgain" (Start also while the engine is running), "Stop",
\* "SetDefaultTimeout", "RegisterHandler", "BadParams" (params that do not
\* marshal), "SpawnFails" (a command that cannot be run), "Restart" (Start
\* again after the child has exited), "GetCapabilities" (GetCapabilities
\* called by the user), "Tools" (ListTools and CallTool).
EchoLines == {Line(NumId(2 * i), "scalar", "nil") : i \in ReqIdx}
StrayLines ==
  {Garbage, Line(NumId(2), "caps", "nil"), Notification(ListChanged)}
  \cup {Line(NoId, r, "nil") : r \in {"scalar", "map", MethodRes(ListChanged)}}
\* ids that are no id of a request (1.5, "1"), a JSON-RPC error, and an
\* object with an id and neither result nor error
IdFormLines ==
  {Line(NumId(3), "scalar", "nil"), Line(StrId(1), "scalar", "nil"),
   Line(NumId(2), "nil", "error"), Line(NumId(2), "nil", "nil")}
NotifyLines == {Line(NoId, MethodRes(ListChanged), "nil")}
Env(w, l, u) == [wiring |-> w, lines |-> l, user |-> u]
Envs ==
  { Env("exec", EchoLines, {}),
    Env("exec", {}, {"SetDefaultTimeout"}),
    Env("exec", StrayLines, {}),
    Env("injected", EchoLines, {}),
    Env("exec", NotifyLines, {"RegisterHandler"}),
    Env("injected", IdFormLines, {}),
    Env("exec", {}, {"Restart"}),
    Env("exec", {Line(NumId(2), "nil", "error")}, {"GetCapabilities"}),
    Env("exec", {}, {"Tools"}),
    Env("exec", {}, {"EarlyCall", "StartAgain", "Stop", "SpawnFails", "BadParams"}) }

\* --------------------------------------------------------- tool registry
\* A tool (models.ToolExecutor): what GetName, GetDescription and GetSchema
\* return, and whether Execute returns an error.
ToolNames == {"a", "b"}
Tools ==
  [name : ToolNames, description : {"d1", "d2"}, schema : {"s1", "s2"},
   fails : BOOLEAN]
NoTool == [name |-> "", description |-> "", schema |-> "", fails |-> FALSE]
\* NewStdioMCP: not initialized, no command; ret is what the last call of
\* the provider returned, spawned the number of processes started so far,
\* out the lines in the stdout pipe of the child
StdioRet(op, err) == [op |-> op, err |-> err]
NoStdio ==
  [initialized |-> FALSE, cmd |-> "none", child |-> "none", spawned |-> 0,
   out |-> <<>>, ret |-> StdioRet("none", "nil")]
NoArg == [kind |-> "none"]
NoRet == [kind |-> "none"]

\* tools.NewRegistry(): no tool under any name
NewRegistry == [n \in ToolNames |-> NoTool]

\* NewMCP, and for the injected wiring the fields TestMCPJSONRPC sets
NewMCP ==
  /\ nextID = InitialNextID
  /\ defaultTimeout = InitialTimeout
  /\ pending = [i \in ReqIdx |-> 0]
  /\ handlers = [m \in Methods |-> "none"]
  /\ capabilities = "empty"
  /\ reqs = <<>>
  /\ rejected = FALSE
  /\ mainPc = "idle"
  /\ startRet = "none"
  /\ stopRet = "none"
  /\ capsRet = "none"
  /\ toolRegistry = NewRegistry
  /\ toolPc = "idle"
  /\ toolRet = "none"
  /\ registered = [m \in Methods |-> "none"]
  /\ stdin = <<>>
  /\ childRead = <<>>
  /\ stdoutQ = [g \in Gens |-> <<>>]
  /\ waiter = [g \in Gens |-> "off"]
  /\ emitted = 0
  /\ invoked = <<>>
  /\ crashed = "no"
  /\ IF env.wiring = "injected"
     THEN /\ running = TRUE
          /\ gen = 1 /\ child = "alive" /\ cmdStdin = 1 /\ stdinOpen = TRUE
          /\ disp = [g \in Gens |-> [pc |-> IF g = 1 THEN "scan" ELSE "off",
                                     line |-> Garbage, req |-> 0]]
     ELSE /\ running = FALSE
          /\ gen = 0 /\ child = "none" /\ cmdStdin = 0 /\ stdinOpen = FALSE
          /\ disp = [g \in Gens |-> [pc |-> "off", line |-> Garbage, req |-> 0]]

Init ==
  /\ env \in Envs
  /\ NewMCP
  /\ arg = NoArg
  /\ ret = NoRet
  /\ stdio = NoStdio

\* the pendingRequest objects allocated so far
Live(r) == r <= Len(reqs)

\* ------------------------------------------------------ return of a Call
\* What the caller of callWithTimeout does with the outcome: a Call of the
\* user returns it; GetCapabilities (called by Start) stores the advertised
\* capabilities and sends notifications/initialized with a second Call,
\* and on any failure returns to Start, which goes on to install the waiter.

\* A handshake that takes any response for the capabilities: the faulty
\* variant that the protection of the stored capabilities must rule out.
HandshakeAny(k, l) == k = "Response"

\* the initialize Call returned a response without error whose result is a
\* map with a capabilities map in it
HandshakeOk(k, l) == k = "Response" /\ l.err = "nil" /\ l.res = "caps"

\* A Start that gives up when the negotiation fails: the faulty variant
\* that the tolerance of Start must rule out.
ContinueFatal(c, k, l) ==
  IF c \in {"user", "tool"}
  THEN UNCHANGED <<mainPc, capabilities, capsRet>>
  ELSE IF k = "Response" /\ l.err = "nil" /\ l.res = "caps" /\ c \in {"init", "uinit"}
  THEN /\ capabilities' = "server"
       /\ mainPc' = IF c = "init" THEN "call2" ELSE "ucall2"
       /\ UNCHANGED capsRet
  ELSE /\ mainPc' = IF c = "notif" THEN "waiter" ELSE "idle"
       /\ capsRet' = IF c = "uinit" THEN "error" ELSE IF c = "unotif" THEN "server" ELSE capsRet
       /\ UNCHANGED capabilities

Continue(c, k, l) ==
  IF c \in {"user", "tool"}
  THEN UNCHANGED <<mainPc, capabilities, capsRet>>
  ELSE IF c \in {"init", "uinit"} /\ HandshakeOk(k, l)
  THEN /\ capabilities' = "server"
       /\ mainPc' = IF c = "init" THEN "call2" ELSE "ucall2"
       /\ UNCHANGED capsRet
  ELSE IF c \in {"init", "notif"}
  THEN /\ mainPc' = "waiter"
       /\ UNCHANGED <<capabilities, capsRet>>
  ELSE /\ mainPc' = "idle"
       /\ capsRet' = IF c = "uinit" THEN "error" ELSE "server"
       /\ UNCHANGED capabilities

\* ------------------------------------------------------- callWithTimeout
\* The Calls that a Start in progress has still to make (initialize and,
\* after a successful handshake, notifications/initialized): they are
\* counted in MaxCalls ahead of time, so that the bound never holds up Start.
CapsPossible == \E l \in env.lines : HandshakeOk("Response", l)

StartCalls ==
  IF mainPc \in {"spawn", "call"} THEN (IF CapsPossible THEN 2 ELSE 1)
  ELSE IF mainPc \in {"call2", "ucall2"} \/ (mainPc = "incall" /\ CapsPossible) THEN 1
  ELSE 0

\* Entry: the running check, getNextID, the pendingRequest and its timer.
\* The timer is armed here, before the entry is registered.
Enter(c) ==
  /\ Len(reqs) + (IF c \in {"user", "tool"} THEN StartCalls ELSE 0) < MaxCalls
  /\ reqs' = Append(reqs, NewReq(nextID, c, defaultTimeout))
  /\ nextID' = GetNextID(nextID)

\* Call of the user
CallEnter ==
  /\ crashed = "no"
  /\ running \/ "EarlyCall" \in env.user
  /\ IF RunningCheck(running)
     THEN /\ Enter("user")
          /\ UNCHANGED rejected
     ELSE /\ rejected' = ~rejected
          /\ UNCHANGED <<reqs, nextID>>
  /\ UNCHANGED <<rest, running, defaultTimeout, pending, handlers, capabilities,
                 starter, proc, inpipe, outpipe, disp, waiter, invoked, crashed>>

\* GetCapabilities within Start: not running returns the default set at
\* once; running goes on to Call("initialize") and, after a successful
\* handshake, to Call("notifications/initialized").
StartCall ==
  /\ crashed = "no"
  /\ mainPc \in {"call", "call2"}
  /\ IF RunningCheck(running)
     THEN /\ Enter(IF mainPc = "call" THEN "init" ELSE "notif")
          /\ mainPc' = "incall"
     ELSE /\ mainPc' = "waiter"
          /\ UNCHANGED <<reqs, nextID>>
  /\ UNCHANGED <<rest, running, defaultTimeout, pending, handlers, capabilities,
                 rejected, startRet, proc, inpipe, outpipe, disp, waiter,
                 invoked, crashed>>

\* m.pending[id] = req, under pendingMtx
CallRegister(r) ==
  /\ crashed = "no"
  /\ Live(r)
  /\ reqs[r].pc = "reg"
  /\ pending' = [pending EXCEPT ![reqs[r].id] = r]
  /\ reqs' = [reqs EXCEPT ![r].pc = "write"]
  /\ UNCHANGED <<rest, running, nextID, defaultTimeout, handlers, capabilities,
                 rejected, starter, proc, inpipe, outpipe, disp, waiter,
                 invoked, crashed>>

\* The error paths after registration (marshal or write failed): the entry
\* is deleted by id, the timer is stopped and the error is returned.
CallFail(r, k) ==
  /\ pending' = DeleteEntry(pending, reqs[r].id)
  /\ reqs' = [reqs EXCEPT ![r] = [StopTimer(@) EXCEPT !.pc = "ret", !.out = Out(k, NoResp)]]
  /\ Continue(reqs[r].ctx, k, NoResp)

\* A Write on the pipe succeeds while the pipe is open and the child lives.
PipeWritable(p) == p # 0 /\ p = gen /\ stdinOpen /\ child = "alive"

\* json.Marshal(request), then fmt.Fprintln(m.cmdStdin, ...): one Write of
\* the line and its newline.  On the injected writer the line reaches the
\* pipe in two fragments.
CallWrite(r) ==
  /\ crashed = "no"
  /\ Live(r)
  /\ reqs[r].pc = "write"
  /\ \/ /\ reqs[r].ctx = "user" /\ "BadParams" \in env.user
        /\ CallFail(r, "MarshalError")
        /\ UNCHANGED <<inpipe, crashed>>
     \/ /\ cmdStdin = 0
        /\ crashed' = "nilWriter"
        /\ UNCHANGED <<pending, reqs, mainPc, capabilities, capsRet, inpipe>>
     \/ /\ PipeWritable(cmdStdin)
        /\ IF env.wiring = "injected"
           THEN /\ stdin' = Append(stdin, <<r, 1>>)
                /\ reqs' = [reqs EXCEPT ![r].pc = "write2"]
                /\ UNCHANGED childRead
           ELSE /\ reqs' = [reqs EXCEPT ![r].pc = "wait"]
                /\ UNCHANGED <<stdin, childRead>>
        /\ UNCHANGED <<pending, mainPc, capabilities, capsRet, crashed>>
     \/ /\ cmdStdin # 0 /\ ~PipeWritable(cmdStdin)
        /\ CallFail(r, "WriteError")
        /\ UNCHANGED <<inpipe, crashed>>
  /\ UNCHANGED <<env, facade, aside, stopRet, running, nextID, defaultTimeout, handlers, rejected,
                 startRet, proc, outpipe, disp, waiter, invoked>>

CallWrite2(r) ==
  /\ crashed = "no"
  /\ Live(r)
  /\ reqs[r].pc = "write2"
  /\ childRead' = Append(stdin, <<r, 2>>)
  /\ stdin' = <<>>
  /\ reqs' = [reqs EXCEPT ![r].pc = "wait"]
  /\ UNCHANGED <<rest, engine, rejected, starter, proc, outpipe, disp, waiter,
                 invoked, crashed>>

\* select { case response := <-responseChan; case <-doneChan }: when both
\* are ready the runtime picks either.
CallWait(r) ==
  /\ crashed = "no"
  /\ Live(r)
  /\ reqs[r].pc = "wait"
  /\ \/ /\ reqs[r].chan # <<>>
        /\ reqs' = [reqs EXCEPT ![r].chan = Tail(@), ![r].pc = "ret",
                                ![r].out = Out("Response", Head(reqs[r].chan))]
        /\ Continue(reqs[r].ctx, "Response", Head(reqs[r].chan))
     \/ /\ reqs[r].done > 0
        /\ reqs' = [reqs EXCEPT ![r].pc = "ret", ![r].out = Out("Timeout", NoResp)]
        /\ Continue(reqs[r].ctx, "Timeout", NoResp)
  /\ UNCHANGED <<env, facade, aside, stopRet, running, nextID, defaultTimeout, pending, handlers,
                 rejected, startRet, proc, inpipe, outpipe, disp, waiter,
                 invoked, crashed>>

\* ------------------------------------------------------ the request timer
\* time.AfterFunc(timeout, func() { lock; delete(m.pending, id); unlock;
\* close(doneChan) }): the runtime starts the callback (from then on Stop
\* no longer prevents it), which takes the lock, deletes, and closes the
\* channel after releasing the lock.
TimerFire(r) ==
  /\ crashed = "no"
  /\ Live(r)
  /\ reqs[r].timer = "armed"
  /\ reqs' = [reqs EXCEPT ![r].timer = "fired"]
  /\ UNCHANGED <<rest, engine, rejected, starter, proc, inpipe, outpipe, disp,
                 waiter, invoked, crashed>>

TimerDelete(r) ==
  /\ crashed = "no"
  /\ Live(r)
  /\ reqs[r].timer = "fired"
  /\ pending' = DeleteEntry(pending, reqs[r].id)
  /\ reqs' = [reqs EXCEPT ![r].timer = "unlocked"]
  /\ UNCHANGED <<rest, running, nextID, defaultTimeout, handlers, capabilities,
                 rejected, starter, proc, inpipe, outpipe, disp, waiter,
                 invoked, crashed>>

\* close(doneChan): closing a closed channel panics
TimerClose(r) ==
  /\ crashed = "no"
  /\ Live(r)
  /\ reqs[r].timer = "unlocked"
  /\ IF reqs[r].done > 0
     THEN /\ crashed' = "closeOfClosed"
          /\ UNCHANGED reqs
     ELSE /\ reqs' = [reqs EXCEPT ![r].timer = "off", ![r].done = ClosedByTimer]
          /\ UNCHANGED crashed
  /\ UNCHANGED <<rest, engine, rejected, starter, proc, inpipe, outpipe, disp,
                 waiter, invoked>>

\* --------------------------------------------------------------- the child
\* The child writes a line to its stdout, whenever it likes.
ChildEmit(l) ==
  /\ crashed = "no"
  /\ child = "alive"
  /\ l \in env.lines
  /\ emitted < MaxLines
  /\ Len(stdoutQ[gen]) < MaxPipe
  /\ stdoutQ' = [stdoutQ EXCEPT ![gen] = Append(@, l)]
  /\ emitted' = emitted + 1
  /\ UNCHANGED <<rest, engine, reqs, rejected, starter, proc, inpipe, disp,
                 waiter, invoked, crashed>>

\* The child exits on its own (a crash, or after EOF on its stdin).
ChildExit ==
  /\ crashed = "no"
  /\ env.wiring = "exec"
  /\ child = "alive"
  /\ child' = "exited"
  /\ UNCHANGED <<rest, engine, reqs, rejected, starter, gen, cmdStdin, stdinOpen,
                 inpipe, outpipe, disp, waiter, invoked, crashed>>

\* ------------------------------------------------------- handleResponses
\* the pendingRequest objects that have an entry in the table
Entries(tbl) == {tbl[i] : i \in DOMAIN tbl} \ {0}

\* A lookup that ignores the id and takes the oldest entry: the faulty
\* variant that the correlation and single-delivery properties must rule out.
LookupAnyEntry(tbl, id) ==
  IF id.k = "num" /\ Entries(tbl) # {}
  THEN CHOOSE r \in Entries(tbl) : \A q \in Entries(tbl) : r <= q
  ELSE 0

\* The pending entry a response id selects: a float64 id is converted with
\* int(); the retry with the raw id and the lookup of a string id use a key
\* of another dynamic type than the int keys of the table and find nothing.
Lookup(tbl, id) ==
  IF id.k = "num" /\ IntOfFloat(id.v) \in DOMAIN tbl THEN tbl[IntOfFloat(id.v)] ELSE 0

\* go handler(response), when a handler is registered for the method
Invoke(m) ==
  IF m \in Methods /\ handlers[m] # "none"
  THEN invoked' = Append(invoked, <<m, handlers[m]>>)
  ELSE UNCHANGED invoked

\* A handler called in the dispatcher's own goroutine: the faulty variant
\* that the independence of the dispatcher from its handlers must rule out.
AfterDispatchInline(m) ==
  IF m \in Methods /\ handlers[m] # "none" THEN "handler" ELSE "scan"

\* where the dispatcher goes on after dispatchToHandler: the handler runs
\* in a goroutine of its own, the dispatcher returns to scanner.Scan()
AfterDispatch(m) == "scan"

\* dispatchToHandler: for a line without id the result is asserted to be a
\* map without the comma-ok form, which panics for any other result.
DispatchPanics(l) == l.id = NoId /\ ~IsMap(l.res)

\* the pipe of command g has reached EOF once its child is gone
AtEOF(g) == g < gen \/ child # "alive"

\* scanner.Scan(), json.Unmarshal and the lookup under pendingMtx.RLock
DispRead(g) ==
  /\ crashed = "no"
  /\ disp[g].pc = "scan"
  /\ IF stdoutQ[g] # <<>>
     THEN LET l == Unmarshal(Head(stdoutQ[g]))
              r == Lookup(pending, l.id) IN
          /\ stdoutQ' = [stdoutQ EXCEPT ![g] = Tail(@)]
          /\ IF l.bad
             THEN UNCHANGED <<disp, invoked, crashed>>
             ELSE IF l.id # NoId /\ r # 0
             THEN /\ disp' = [disp EXCEPT ![g] = [pc |-> "deliver", line |-> l, req |-> r]]
                  /\ UNCHANGED <<invoked, crashed>>
             ELSE IF DispatchPanics(l)
             THEN /\ crashed' = "nilMapAssert"
                  /\ UNCHANGED <<disp, invoked>>
             ELSE /\ Invoke(MethodOf(l.res))
                  /\ disp' = [disp EXCEPT ![g].pc = AfterDispatch(MethodOf(l.res))]
                  /\ UNCHANGED crashed
     ELSE /\ AtEOF(g)
          /\ disp' = [disp EXCEPT ![g].pc = "ended"]
          /\ UNCHANGED <<stdoutQ, invoked, crashed>>
  /\ UNCHANGED <<rest, engine, reqs, rejected, starter, proc, inpipe, emitted, waiter>>

\* select { case req.response <- &response; case <-req.done; default }
DispDeliver(g) ==
  LET r == disp[g].req IN
  /\ crashed = "no"
  /\ disp[g].pc = "deliver"
  /\ \/ /\ Len(reqs[r].chan) < ChanCap
        /\ reqs' = [reqs EXCEPT ![r].chan = Append(@, disp[g].line)]
     \/ /\ reqs[r].done > 0
        /\ UNCHANGED reqs
     \/ /\ Len(reqs[r].chan) >= ChanCap /\ reqs[r].done = 0
        /\ UNCHANGED reqs
  /\ disp' = [disp EXCEPT ![g].pc = "delete"]
  /\ UNCHANGED <<rest, engine, rejected, starter, proc, inpipe, outpipe, waiter,
                 invoked, crashed>>

\* delete(m.pending, int(floatID)) under pendingMtx.Lock, then
\* if req.timeout != nil { req.timeout.Stop() }
DispDelete(g) ==
  /\ crashed = "no"
  /\ disp[g].pc = "delete"
  /\ pending' = DeleteEntry(pending, IntOfFloat(disp[g].line.id.v))
  /\ reqs' = [reqs EXCEPT ![disp[g].req] = StopTimer(@)]
  /\ disp' = [disp EXCEPT ![g] = [pc |-> "scan", line |-> Garbage, req |-> 0]]
  /\ UNCHANGED <<rest, running, nextID, defaultTimeout, handlers, capabilities,
                 rejected, starter, proc, inpipe, outpipe, waiter, invoked, crashed>>

\* ------------------------------------------------------------------ Start
\* if m.running { return error }; m.running = true, under runningMtx
StartBegin ==
  /\ crashed = "no"
  /\ mainPc = "idle"
  /\ ~running \/ "StartAgain" \in env.user
  /\ IF running
     THEN /\ startRet' = "AlreadyRunning"
          /\ UNCHANGED <<running, mainPc>>
     ELSE /\ gen < MaxStarts
          /\ gen = 0 \/ "Restart" \in env.user
          /\ running' = TRUE
          /\ mainPc' = "spawn"
          /\ UNCHANGED startRet
  /\ UNCHANGED <<rest, nextID, defaultTimeout, pending, handlers, capabilities,
                 reqs, rejected, proc, inpipe, outpipe, disp, waiter, invoked,
                 crashed>>

\* A registration that keeps the handler a method already has: the faulty
\* variant that the overwrite by the last registration must rule out.
SetHandlerKeepFirst(h, m, f) == IF h[m] = "none" THEN [h EXCEPT ![m] = f] ELSE h

\* m.handlers[method] = handler, under handlersMtx
SetHandler(h, m, f) == [h EXCEPT ![m] = f]

\* exec.Command, StdinPipe, StdoutPipe, cmd.Start, go handleResponses and
\* the registration of the default handler for tools/list_changed.
\* fail = "pipe": StdinPipe fails and leaves m.cmdStdin nil; fail = "start":
\* cmd.Start fails and closes the pipes.  Both return the error at once.
StartSpawn(fail) ==
  /\ crashed = "no"
  /\ mainPc = "spawn"
  /\ fail = "none" \/ "SpawnFails" \in env.user
  /\ gen' = gen + 1
  /\ stdin' = <<>>
  /\ IF fail = "none"
     THEN /\ cmdStdin' = gen + 1
          /\ stdinOpen' = TRUE
          /\ child' = "alive"
          /\ disp' = [disp EXCEPT ![gen + 1].pc = "scan"]
          /\ handlers' = SetHandler(handlers, ListChanged, "default")
          /\ registered' = [registered EXCEPT ![ListChanged] = "default"]
          /\ mainPc' = "call"
          /\ UNCHANGED startRet
     ELSE /\ cmdStdin' = IF fail = "pipe" THEN 0 ELSE gen + 1
          /\ stdinOpen' = FALSE
          /\ child' = "unstarted"
          /\ mainPc' = "idle"
          /\ startRet' = "StartupError"
          /\ UNCHANGED <<disp, handlers, registered>>
  /\ UNCHANGED <<env, facade, toolPc, toolRet, stdio, stopRet, capsRet, running, nextID, defaultTimeout, pending, capabilities,
                 reqs, rejected, childRead, outpipe, waiter, invoked, crashed>>

\* go func() { m.cmd.Wait(); ... }(); return nil
StartWaiter ==
  /\ crashed = "no"
  /\ mainPc = "waiter"
  /\ waiter' = [waiter EXCEPT ![gen] = "waiting"]
  /\ mainPc' = "idle"
  /\ startRet' = "ok"
  /\ UNCHANGED <<rest, engine, reqs, rejected, proc, inpipe, outpipe, disp,
                 invoked, crashed>>

\* -------------------------------------------------------- the exit waiter
\* m.cmd.Wait() returns once the child is gone; it closes both pipes, so
\* lines the dispatcher has not yet taken out of the stdout pipe may be
\* lost.  Then m.running = false, under runningMtx.
WaiterWake(g) ==
  /\ crashed = "no"
  /\ waiter[g] = "waiting"
  /\ AtEOF(g)
  /\ running' = FALSE
  /\ waiter' = [waiter EXCEPT ![g] = "cleanup"]
  /\ stdinOpen' = IF g = gen THEN FALSE ELSE stdinOpen
  /\ \E q \in {stdoutQ[g], <<>>} : stdoutQ' = [stdoutQ EXCEPT ![g] = q]
  /\ UNCHANGED <<rest, nextID, defaultTimeout, pending, handlers, capabilities,
                 reqs, rejected, starter, gen, child, cmdStdin, inpipe, emitted,
                 disp, invoked, crashed>>

\* for id, req := range m.pending { close(req.done); req.timeout.Stop();
\* delete(m.pending, id) }, under pendingMtx.  close panics on a channel
\* that the timer callback has closed already.
CloseAll(rs, es) ==
  [r \in DOMAIN rs |-> IF r \in es THEN [StopTimer(rs[r]) EXCEPT !.done = ClosedByExit] ELSE rs[r]]

WaiterCleanup(g) ==
  /\ crashed = "no"
  /\ waiter[g] = "cleanup"
  /\ IF \E r \in Entries(pending) : reqs[r].done > 0
     THEN /\ crashed' = "closeOfClosed"
          /\ UNCHANGED <<reqs, pending, waiter>>
     ELSE /\ reqs' = CloseAll(reqs, Entries(pending))
          /\ pending' = [i \in DOMAIN pending |-> 0]
          /\ waiter' = [waiter EXCEPT ![g] = "done"]
          /\ UNCHANGED crashed
  /\ UNCHANGED <<rest, running, nextID, defaultTimeout, handlers, capabilities,
                 rejected, starter, proc, inpipe, outpipe, disp, invoked>>

\* ------------------------------------------------------------------- Stop
\* A guard that lets every Stop through: the faulty variant that the
\* refusal of Stop on an engine that is not running must rule out.
StopCheckSkipped(run) == TRUE

\* the guard of Stop: if !m.running { return error }
StopCheck(run) == run

\* Under runningMtx: not running is an error; else the stdin pipe is closed
\* and the process killed.  m.cmd is nil until Start has created the
\* command, and m.cmd.Process is nil until cmd.Start has succeeded.  Kill
\* on a process that has exited returns nil until the process has been
\* waited for, and an error afterwards.  The running flag is not written.
Stop ==
  /\ crashed = "no"
  /\ "Stop" \in env.user
  /\ IF ~StopCheck(running)
     THEN /\ stopRet' = "NotRunning"
          /\ UNCHANGED <<stdinOpen, child, crashed>>
     ELSE IF gen = 0
     THEN /\ crashed' = "nilCmd"
          /\ UNCHANGED <<stdinOpen, child, stopRet>>
     ELSE /\ stdinOpen' = FALSE
          /\ child' = IF child = "alive" THEN "exited" ELSE child
          /\ stopRet' \in (IF child = "exited" THEN {"ok", "KillError"} ELSE {"ok"})
          /\ UNCHANGED crashed
  /\ UNCHANGED <<env, facade, aside, capsRet, engine, reqs, rejected, starter, gen,
                 cmdStdin, inpipe, outpipe, disp, waiter, invoked>>

\* ------------------------------------------------------- GetCapabilities
\* A check that never takes the not-running path: the faulty variant that
\* the default answer of an engine that is not running must rule out.
NotRunningNever(run) == FALSE

\* running := m.running; if !running { return default capabilities, nil }
NotRunning(run) == ~run

\* GetCapabilities called by the user, between two Starts: not running
\* returns the static default set at once; running goes on to
\* Call("initialize") and, after a successful handshake, to
\* Call("notifications/initialized"), whose failure is only logged.
GetCapabilities ==
  /\ crashed = "no"
  /\ "GetCapabilities" \in env.user
  /\ mainPc \in {"idle", "ucall2"}
  /\ IF mainPc = "idle" /\ NotRunning(running)
     THEN /\ capsRet' = "default"
          /\ UNCHANGED <<reqs, nextID, mainPc>>
     ELSE IF RunningCheck(running)
     THEN /\ Enter(IF mainPc = "idle" THEN "uinit" ELSE "unotif")
          /\ mainPc' = "incall"
          /\ UNCHANGED capsRet
     ELSE /\ capsRet' = IF mainPc = "idle" THEN "error" ELSE "server"
          /\ mainPc' = "idle"
          /\ UNCHANGED <<reqs, nextID>>
  /\ UNCHANGED <<env, facade, aside, stopRet, running, defaultTimeout, pending,
                 handlers, capabilities, rejected, startRet, proc, inpipe,
                 outpipe, disp, waiter, invoked, crashed>>

\* ------------------------------------------------- ListTools and CallTool
\* Both read m.running under runningMtx and release the lock: not running
\* is served by the local registry; running goes on to m.Call, which checks
\* the flag again and whose error is returned to the caller.
ToolCheck ==
  /\ crashed = "no"
  /\ "Tools" \in env.user
  /\ toolPc = "idle"
  /\ IF running
     THEN /\ toolPc' = "call"
          /\ UNCHANGED toolRet
     ELSE /\ toolRet' = "Local"
          /\ UNCHANGED toolPc
  /\ UNCHANGED <<env, facade, stdio, registered, stopRet, capsRet, engine, reqs,
                 rejected, starter, proc, inpipe, outpipe, disp, waiter,
                 invoked, crashed>>

\* m.Call("tools/list", ...) or m.Call("tools/call", ...)
ToolCall ==
  /\ crashed = "no"
  /\ toolPc = "call"
  /\ IF RunningCheck(running)
     THEN /\ Enter("tool")
          /\ toolRet' = "Remote"
     ELSE /\ toolRet' = "NotRunningError"
          /\ UNCHANGED <<reqs, nextID>>
  /\ toolPc' = "idle"
  /\ UNCHANGED <<env, facade, stdio, registered, stopRet, capsRet, running,
                 defaultTimeout, pending, handlers, capabilities, rejected,
                 starter, proc, inpipe, outpipe, disp, waiter, invoked, crashed>>

\* ------------------------------------------------- configuration surface
\* m.defaultTimeout = timeout
SetDefaultTimeout(v) ==
  /\ crashed = "no"
  /\ "SetDefaultTimeout" \in env.user
  /\ defaultTimeout' = v
  /\ UNCHANGED <<rest, running, nextID, pending, handlers, capabilities, reqs,
                 rejected, starter, proc, inpipe, outpipe, disp, waiter,
                 invoked, crashed>>

\* the handlers the user may register, and the registrations the user
\* makes: two handlers for one method, one for another
UserHandlers == {"user", "user2"}
Registrations == {<<ListChanged, "user">>, <<ListChanged, "user2">>, <<"other", "user">>}

RegisterHandler(m, f) ==
  /\ crashed = "no"
  /\ "RegisterHandler" \in env.user
  /\ handlers' = SetHandler(handlers, m, f)
  /\ registered' = [registered EXCEPT ![m] = f]
  /\ UNCHANGED <<env, facade, toolPc, toolRet, stdio, stopRet, capsRet, running, nextID, defaultTimeout, pending, capabilities,
                 reqs, rejected, starter, proc, inpipe, outpipe, disp, waiter,
                 invoked, crashed>>

\* ---------------------------------------------------------- specification
Next ==
  \/ CallEnter
  \/ StartCall
  \/ \E r \in ReqIdx : CallRegister(r)
  \/ \E r \in ReqIdx : CallWrite(r)
  \/ \E r \in ReqIdx : CallWrite2(r)
  \/ \E r \in ReqIdx : CallWait(r)
  \/ \E r \in ReqIdx : TimerFire(r)
  \/ \E r \in ReqIdx : TimerDelete(r)
  \/ \E r \in ReqIdx : TimerClose(r)
  \/ \E l \in Lines : ChildEmit(l)
  \/ ChildExit
  \/ \E g \in Gens : DispRead(g)
  \/ \E g \in Gens : DispDeliver(g)
  \/ \E g \in Gens : DispDelete(g)
  \/ StartBegin
  \/ \E f \in {"none", "pipe", "start"} : StartSpawn(f)
  \/ StartWaiter
  \/ \E g \in Gens : WaiterWake(g)
  \/ \E g \in Gens : WaiterCleanup(g)
  \/ Stop
  \/ GetCapabilities
  \/ ToolCheck
  \/ ToolCall
  \/ \E v \in Timeouts : SetDefaultTimeout(v)
  \/ \E x \in Registrations : RegisterHandler(x[1], x[2])

Spec == Init /\ [][Next]_vars

\* Scheduling: every goroutine of the engine that can take a step
\* eventually takes one, and a timer that stays armed eventually expires.
\* Nothing is assumed about the child and the user.
CallSteps(r) == CallRegister(r) \/ CallWrite(r) \/ CallWrite2(r) \/ CallWait(r)
TimerSteps(r) == TimerFire(r) \/ TimerDelete(r) \/ TimerClose(r)
DispSteps(g) == DispRead(g) \/ DispDeliver(g) \/ DispDelete(g)
WaiterSteps(g) == WaiterWake(g) \/ WaiterCleanup(g)
StartSteps ==
  \/ StartSpawn("none") \/ StartCall \/ StartWaiter
  \/ (GetCapabilities /\ mainPc = "ucall2")

Fairness ==
  /\ \A r \in ReqIdx : WF_vars(CallSteps(r)) /\ WF_vars(TimerSteps(r))
  /\ \A g \in Gens : WF_vars(DispSteps(g)) /\ WF_vars(WaiterSteps(g))
  /\ WF_vars(StartSteps)

FairSpec == Init /\ [][Next]_vars /\ Fairness

\* ============================================== tool facade and codec
\* The library calls that involve no child process are studied one input
\* at a time: arg is the input (or the mark that the program works with the
\* tool registry), ret what the last call returned.

\* ------------------------------------------------------------ Go and JSON
\* A Go value of type any: its dynamic type (for a map, also the type of
\* its one element) and its printed value.
GoNil == [t |-> "nil", e |-> "", v |-> ""]
GoString(str) == [t |-> "string", e |-> "", v |-> str]
GoInt(n) == [t |-> "int", e |-> "", v |-> n]
GoFloat(n) == [t |-> "float64", e |-> "", v |-> n]
GoMap(x) == [t |-> "map", e |-> x.t, v |-> x.v]

\* A JSON value as it stands in a text: a member that is not there, null,
\* a string, a number, a boolean, or an object with one member.
JAbsent == [j |-> "absent", e |-> "", v |-> ""]
JNull == [j |-> "null", e |-> "", v |-> ""]
JString(str) == [j |-> "string", e |-> "", v |-> str]
JNumber(n) == [j |-> "number", e |-> "", v |-> n]
JBoolean(b) == [j |-> "boolean", e |-> "", v |-> b]
JObject(x) == [j |-> "object", e |-> x.j, v |-> x.v]

\* json.Marshal of a value of type any
MarshalScalar(g) ==
  CASE g.t = "nil" -> JNull
    [] g.t = "string" -> JString(g.v)
    [] g.t \in {"int", "float64"} -> JNumber(g.v)
Marshal(g) ==
  IF g.t = "map" THEN JObject(MarshalScalar([t |-> g.e, e |-> "", v |-> g.v]))
  ELSE MarshalScalar(g)

\* An omitempty that also drops zero values, as it does for a field of a
\* concrete type: the faulty variant that the round trip must rule out.
MarshalOmitZero(g) ==
  IF g.t = "nil" \/ g.v \in {"0", ""} THEN JAbsent ELSE Marshal(g)

\* a field of type any tagged omitempty: left out only when it is nil
MarshalOmitEmpty(g) == IF g.t = "nil" THEN JAbsent ELSE Marshal(g)

\* json.Unmarshal into a field of type any: an absent or null member
\* leaves nil, a number becomes a float64, an object a map[string]any
UnmarshalScalar(x) ==
  CASE x.j \in {"absent", "null"} -> GoNil
    [] x.j = "string" -> GoString(x.v)
    [] x.j = "number" -> GoFloat(x.v)
    [] x.j = "boolean" -> [t |-> "bool", e |-> "", v |-> x.v]
UnmarshalAny(x) ==
  IF x.j = "object" THEN GoMap(UnmarshalScalar([j |-> x.e, e |-> "", v |-> x.v]))
  ELSE UnmarshalScalar(x)

\* json.Unmarshal into a field of type string: absent and null leave ""
UnmarshalString(x) == IF x.j = "string" THEN x.v ELSE ""
\* a member that json.Unmarshal cannot store in a field of the given kind
Mismatch(x, kind) == x.j \notin {"absent", "null", kind}

\* --------------------------------------------------------------- Request
Version == "2.0"
NewRequest(method, params, id) ==
  [jsonrpc |-> Version, method |-> method, params |-> params, id |-> id]

\* json.Marshal(request): params and id are tagged omitempty
EncodeRequest(r) ==
  [jsonrpc |-> JString(r.jsonrpc), method |-> JString(r.method),
   params |-> MarshalOmitEmpty(r.params), id |-> MarshalOmitEmpty(r.id)]

\* json.Unmarshal(data, &request)
DecodeRequest(o) ==
  [jsonrpc |-> UnmarshalString(o.jsonrpc), method |-> UnmarshalString(o.method),
   params |-> UnmarshalAny(o.params), id |-> UnmarshalAny(o.id)]

RequestIds ==
  {GoNil, GoInt("0"), GoInt("1"), GoString("a"), GoString(""), GoFloat("1.5")}
RequestParams ==
  {GoNil, GoString("value1"), GoInt("42"), GoMap(GoString("value1")),
   GoMap(GoInt("42"))}
Requests ==
  {[kind |-> "request", req |-> NewRequest(m, p, i)] :
     m \in {"test_method", "notify"}, p \in RequestParams, i \in RequestIds}

\* -------------------------------------------------------------- Response
\* The text handed to ParseResponse: no JSON at all, or an object with
\* these members.
ErrorObject == JObject(JNumber("-32600"))
ResponseTexts ==
  {[kind |-> "response", json |-> js, jsonrpc |-> v, result |-> r, error |-> e] :
     js \in {TRUE},
     v \in {JAbsent, JString(Version), JString("1.0"), JNumber("2")},
     r \in {JAbsent, JNull, JString("ok"), JObject(JString("bar"))},
     e \in {JAbsent, JNull, ErrorObject, JString("oops")}}
  \cup {[kind |-> "response", json |-> FALSE, jsonrpc |-> JAbsent,
         result |-> JAbsent, error |-> JAbsent]}

\* ParseResponse: json.Unmarshal into Response (Result any, Error *Error),
\* then the version, then "both" and "neither" judged by nil
ParseResponse(o) ==
  LET result == UnmarshalAny(o.result)
      hasError == o.error.j = "object" IN
  IF ~o.json \/ Mismatch(o.jsonrpc, "string") \/ Mismatch(o.error, "object")
  THEN "ParseError"
  ELSE IF UnmarshalString(o.jsonrpc) # Version THEN "VersionError"
  ELSE IF result # GoNil /\ hasError THEN "BothPresent"
  ELSE IF result = GoNil /\ ~hasError THEN "BothMissing"
  ELSE "nil"

\* ------------------------------------------------------------ ToolResult
\* a content item: its type and its text
TextItem(str) == [type |-> "text", text |-> str]
ImageItem == [type |-> "image", text |-> ""]
\* an element of the content array that is no object
BadItem == [type |-> "#string", text |-> ""]
ContentLists ==
  {<<>>, <<TextItem("x")>>, <<TextItem("x"), TextItem("y")>>, <<ImageItem>>,
   <<BadItem>>}

\* The result member of a tools/call response.  models.ToolResult names
\* its members name, result, content and is_error; the MCP shape has
\* content and isError.
ToolResultTexts ==
  {[kind |-> "toolresult", name |-> n, result |-> r, content |-> c,
    is_error |-> e1, isError |-> e2] :
     n \in {JAbsent, JString("srv")},
     r \in {JAbsent, JString("flat"), JNumber("7")},
     c \in ContentLists,
     e1 \in {JAbsent, JBoolean("true")},
     e2 \in {JAbsent, JBoolean("true")}}

ToolResult(n, r, c, e) == [name |-> n, result |-> r, content |-> c, isError |-> e]
NoToolResult == ToolResult("", "", <<>>, FALSE)

\* the text of a single text item, "" otherwise
SingleText(c) ==
  IF Len(c) = 1 /\ c[1].type = "text" THEN c[1].text ELSE ""

\* CallTool after the Call has returned: unmarshal the result into
\* models.ToolResult; only if that returns an error, unmarshal it into the
\* MCP struct and convert, setting Result from a single text item.
DecodeToolResult(name, o) ==
  LET badContent == \E i \in DOMAIN o.content : o.content[i] = BadItem
      first == ToolResult(UnmarshalString(o.name), UnmarshalString(o.result),
                          o.content, o.is_error = JBoolean("true"))
      second == ToolResult(name, SingleText(o.content), o.content,
                           o.isError = JBoolean("true")) IN
  IF ~(Mismatch(o.name, "string") \/ Mismatch(o.result, "string") \/ badContent)
  THEN [value |-> first, err |-> "nil"]
  ELSE IF badContent
  THEN [value |-> NoToolResult, err |-> "UnmarshalError"]
  ELSE [value |-> second, err |-> "nil"]

\* -------------------------------------------------------------- Registry
\* Register: a name that is taken is an error and nothing is stored
Register(reg, t) ==
  IF reg[t.name] # NoTool
  THEN [reg |-> reg, err |-> "AlreadyRegistered"]
  ELSE [reg |-> [reg EXCEPT ![t.name] = t], err |-> "nil"]

\* GetAll: the tools of the map, in the order the range happens to take
Orders(S) ==
  {q \in UNION {[1..n -> S] : n \in 0..Cardinality(ToolNames)} :
     /\ Len(q) = Cardinality(S)
     /\ \A x \in S : \E i \in DOMAIN q : q[i] = x}
GetAll(reg) == Orders({reg[n] : n \in ToolNames} \ {NoTool})

\* A descriptor without the schema: the faulty variant that the fidelity
\* of the listing must rule out.
convertWithoutSchema(t) ==
  [name |-> t.name, description |-> t.description, inputSchema |-> ""]

convertToMCPTool(t) ==
  [name |-> t.name, description |-> t.description, inputSchema |-> t.schema]

\* tool.Execute(argsBytes): (text, nil) or ("", error)
Execute(t) ==
  IF t.fails THEN [text |-> "", err |-> "boom"] ELSE [text |-> "done", err |-> "nil"]

\* fmt.Sprintf("Error executing tool: %v", err)
ErrorText(err) == <<"Error executing tool: ", err>>

\* A local execution that raises the handler's error: the faulty variant
\* that the capture of execution errors must rule out.
LocalResultRaised(name, x) ==
  IF x.err # "nil"
  THEN [value |-> NoToolResult, err |-> x.err]
  ELSE [value |-> ToolResult(name, x.text, <<TextItem(x.text)>>, FALSE), err |-> "nil"]

\* the two returns of CallTool after tool.Execute
LocalResult(name, x) ==
  IF x.err # "nil"
  THEN [value |-> ToolResult(name, ErrorText(x.err), <<TextItem(ErrorText(x.err))>>, TRUE),
        err |-> "nil"]
  ELSE [value |-> ToolResult(name, x.text, <<TextItem(x.text)>>, FALSE), err |-> "nil"]

\* ---------------------------------------------------------------- actions
Return(k, v, e) == [kind |-> k, value |-> v, err |-> e]
ToolsArg == [kind |-> "tools"]
LibArgs == {ToolsArg} \cup Requests \cup ResponseTexts \cup ToolResultTexts

LibInit ==
  /\ env = Env("exec", {}, {})
  /\ NewMCP
  /\ arg \in LibArgs
  /\ ret = NoRet
  /\ stdio = NoStdio

\* MCP.RegisterTool
RegisterTool(t) ==
  /\ arg = ToolsArg
  /\ toolRegistry' = Register(toolRegistry, t).reg
  /\ ret' = Return("RegisterTool", <<>>, Register(toolRegistry, t).err)
  /\ UNCHANGED <<aside, arg, env, engine, reqs, rejected, starter, stopRet, capsRet,
                 proc, inpipe, outpipe, disp, waiter, invoked, crashed>>

\* ListTools on an engine that is not running
ListTools ==
  /\ arg = ToolsArg
  /\ ~running
  /\ \E q \in GetAll(toolRegistry) :
       ret' = Return("ListTools", [i \in DOMAIN q |-> convertToMCPTool(q[i])], "nil")
  /\ UNCHANGED <<aside, arg, toolRegistry, env, engine, reqs, rejected, starter,
                 stopRet, capsRet, proc, inpipe, outpipe, disp, waiter,
                 invoked, crashed>>

\* CallTool on an engine that is not running; marshals = FALSE: arguments
\* that json.Marshal refuses
CallTool(name, marshals) ==
  /\ arg = ToolsArg
  /\ ~running
  /\ ret' = IF toolRegistry[name] = NoTool
            THEN [kind |-> "CallTool", name |-> name, value |-> NoToolResult,
                  err |-> "NotFound"]
            ELSE IF ~marshals
            THEN [kind |-> "CallTool", name |-> name, value |-> NoToolResult,
                  err |-> "MarshalError"]
            ELSE [kind |-> "CallTool", name |-> name,
                  value |-> LocalResult(name, Execute(toolRegistry[name])).value,
                  err |-> LocalResult(name, Execute(toolRegistry[name])).err]
  /\ UNCHANGED <<aside, arg, toolRegistry, env, engine, reqs, rejected, starter,
                 stopRet, capsRet, proc, inpipe, outpipe, disp, waiter,
                 invoked, crashed>>

\* CallTool on a running engine, from the response of the server on
CallToolDecode(name) ==
  /\ arg.kind = "toolresult"
  /\ ret' = [kind |-> "CallTool", name |-> name,
             value |-> DecodeToolResult(name, arg).value,
             err |-> DecodeToolResult(name, arg).err]
  /\ UNCHANGED <<aside, arg, toolRegistry, env, engine, reqs, rejected, starter,
                 stopRet, capsRet, proc, inpipe, outpipe, disp, waiter,
                 invoked, crashed>>

ParseResponseCall ==
  /\ arg.kind = "response"
  /\ ret' = Return("ParseResponse", <<>>, ParseResponse(arg))
  /\ UNCHANGED <<aside, arg, toolRegistry, env, engine, reqs, rejected, starter,
                 stopRet, capsRet, proc, inpipe, outpipe, disp, waiter,
                 invoked, crashed>>

\* json.Marshal(NewRequest(...)), then json.Unmarshal of the bytes
RequestRoundTrip ==
  /\ arg.kind = "request"
  /\ ret' = [kind |-> "RoundTrip", wire |-> EncodeRequest(arg.req),
             value |-> DecodeRequest(EncodeRequest(arg.req)), err |-> "nil"]
  /\ UNCHANGED <<aside, arg, toolRegistry, env, engine, reqs, rejected, starter,
                 stopRet, capsRet, proc, inpipe, outpipe, disp, waiter,
                 invoked, crashed>>

LibNext ==
  \/ \E t \in Tools : RegisterTool(t)
  \/ ListTools
  \/ \E n \in ToolNames, ok \in BOOLEAN : CallTool(n, ok)
  \/ \E n \in ToolNames : CallToolDecode(n)
  \/ ParseResponseCall
  \/ RequestRoundTrip

LibSpec == LibInit /\ [][LibNext]_vars

\* ================================================================ StdioMCP
\* Every method of StdioMCP holds m.mutex for its whole body, so each is
\* one step.
MaxSpawns == 2
StdioLines == {"tools", "error", "other"}

\* A provider that counts as initialized whatever Initialize ran into: the
\* faulty variant that the meaning of the flag must rule out.
InitializedAlways(outcome) == TRUE

\* m.initialized = true is reached only when both pipes were created and
\* cmd.Start returned nil
InitializedAfter(outcome) == outcome = "ok"

\* Initialize: nil at once when initialized; else a new command, its
\* pipes, cmd.Start, and the flag
Initialize(outcome) ==
  /\ IF stdio.initialized
     THEN stdio' = [stdio EXCEPT !.ret = StdioRet("Initialize", "nil")]
     ELSE /\ outcome = "ok" => stdio.spawned < MaxSpawns
          /\ stdio' = [stdio EXCEPT
               !.cmd = "set",
               !.child = IF outcome = "ok" THEN "alive" ELSE "none",
               !.spawned = IF outcome = "ok" THEN @ + 1 ELSE @,
               !.out = <<>>,
               !.initialized = InitializedAfter(outcome),
               !.ret = StdioRet("Initialize",
                                IF outcome = "ok" THEN "nil" ELSE "StartupError")]
  /\ UNCHANGED <<env, facade, toolPc, toolRet, registered, engine, reqs,
                 rejected, starter, stopRet, capsRet, proc, inpipe, outpipe,
                 disp, waiter, invoked, crashed>>

\* what a read of one line from m.stdout gives: the line, an error at EOF,
\* or a timeout while the child lives and is silent
ReadLine(st) ==
  IF st.out # <<>> THEN Head(st.out)
  ELSE IF st.child = "alive" THEN "Timeout" ELSE "EOF"

\* what GetTools makes of the line: the JSON-RPC error, the tools of the
\* result, or the mock tool for anything it cannot parse
ToolsOf(line) ==
  CASE line = "error" -> StdioRet("GetTools", "RPCError")
    [] line \in {"Timeout", "EOF"} -> StdioRet("GetTools", line)
    [] OTHER -> StdioRet("GetTools", "nil")

GetTools ==
  /\ IF ~stdio.initialized
     THEN stdio' = [stdio EXCEPT !.ret = StdioRet("GetTools", "NotInitialized")]
     ELSE IF stdio.child # "alive"
     THEN stdio' = [stdio EXCEPT !.ret = StdioRet("GetTools", "SendError")]
     ELSE stdio' = [stdio EXCEPT !.ret = ToolsOf(ReadLine(stdio)),
                                 !.out = IF @ = <<>> THEN @ ELSE Tail(@)]
  /\ UNCHANGED <<env, facade, toolPc, toolRet, registered, engine, reqs,
                 rejected, starter, stopRet, capsRet, proc, inpipe, outpipe,
                 disp, waiter, invoked, crashed>>

ReadResponse ==
  /\ IF ~stdio.initialized
     THEN stdio' = [stdio EXCEPT !.ret = StdioRet("ReadResponse", "NotInitialized")]
     ELSE stdio' = [stdio EXCEPT
            !.ret = StdioRet("ReadResponse",
                             IF ReadLine(stdio) \in {"Timeout", "EOF"}
                             THEN ReadLine(stdio) ELSE "nil"),
            !.out = IF @ = <<>> THEN @ ELSE Tail(@)]
  /\ UNCHANGED <<env, facade, toolPc, toolRet, registered, engine, reqs,
                 rejected, starter, stopRet, capsRet, proc, inpipe, outpipe,
                 disp, waiter, invoked, crashed>>

\* Shutdown: nil at once when not initialized; else the exit messages,
\* stdin closed, cmd.Wait (the child exits at EOF on its stdin), and the
\* fields reset; the result of Wait is returned
Shutdown(status) ==
  /\ IF ~stdio.initialized
     THEN stdio' = [stdio EXCEPT !.ret = StdioRet("Shutdown", "nil")]
     ELSE stdio' = [stdio EXCEPT
            !.initialized = FALSE, !.cmd = "none", !.child = "exited",
            !.out = <<>>, !.ret = StdioRet("Shutdown", status)]
  /\ UNCHANGED <<env, facade, toolPc, toolRet, registered, engine, reqs,
                 rejected, starter, stopRet, capsRet, proc, inpipe, outpipe,
                 disp, waiter, invoked, crashed>>

\* the child of the provider writes a line, or exits
StdioEmit(l) ==
  /\ stdio.child = "alive"
  /\ Len(stdio.out) < MaxPipe
  /\ stdio' = [stdio EXCEPT !.out = Append(@, l)]
  /\ UNCHANGED <<env, facade, toolPc, toolRet, registered, engine, reqs,
                 rejected, starter, stopRet, capsRet, proc, inpipe, outpipe,
                 disp, waiter, invoked, crashed>>

StdioExit ==
  /\ stdio.child = "alive"
  /\ stdio' = [stdio EXCEPT !.child = "exited"]
  /\ UNCHANGED <<env, facade, toolPc, toolRet, registered, engine, reqs,
                 rejected, starter, stopRet, capsRet, proc, inpipe, outpipe,
                 disp, waiter, invoked, crashed>>

\* NewStdioMCP, beside an MCP that is never started
StdioInit ==
  /\ env = Env("exec", {}, {})
  /\ NewMCP
  /\ arg = NoArg
  /\ ret = NoRet
  /\ stdio = NoStdio

StdioNext ==
  \/ \E o \in {"ok", "pipeFail", "startFail"} : Initialize(o)
  \/ GetTools
  \/ ReadResponse
  \/ \E st \in {"nil", "ExitError"} : Shutdown(st)
  \/ \E l \in StdioLines : StdioEmit(l)
  \/ StdioExit

StdioSpec == StdioInit /\ [][StdioNext]_vars

\* ================================================================ properties
Returned(r) == Live(r) /\ reqs[r].pc = "ret"
Halted == crashed # "no"

\* C1: a Call that returns a response which echoes the id of some request
\* returns the response that echoes the id of its own request.
OwnResponse ==
  \A r \in ReqIdx :
    (Live(r) /\ reqs[r].out.kind = "Response"
       /\ \E q \in ReqIdx : Live(q) /\ reqs[r].out.resp.id = NumId(2 * reqs[q].id))
    => reqs[r].out.resp.id = NumId(2 * reqs[r].id)

\* two Calls issued concurrently have both returned a response
OwnResponseWitness ==
  /\ Len(reqs) = MaxCalls
  /\ \A r \in ReqIdx : reqs[r].out.kind = "Response"
  /\ reqs[1].ctx = "user" /\ reqs[2].ctx = "user"

\* C2 (as amended): the Calls made so far have pairwise distinct ids, and
\* the entry under an id is the pendingRequest of the one Call that was
\* given that id; that Call may have returned already.
DistinctPendingIds ==
  /\ \A r, q \in ReqIdx : (Live(r) /\ Live(q) /\ r # q) => reqs[r].id # reqs[q].id
  /\ \A i \in DOMAIN pending :
       pending[i] # 0 => Live(pending[i]) /\ reqs[pending[i]].id = i

\* two Calls have their entries in the table at the same time
DistinctPendingIdsWitness ==
  \A i \in DOMAIN pending : pending[i] # 0 /\ ~Returned(pending[i])

\* C2 (as stated): moreover every entry belongs to a Call in flight.
EntriesInFlight ==
  /\ DistinctPendingIds
  /\ \A i \in DOMAIN pending : pending[i] # 0 => ~Returned(pending[i])

\* C3: no done channel is closed twice.
DoneClosedOnce == crashed # "closeOfClosed"

\* C4: a Call that has returned the timeout error has no entry in the table.
TimeoutLeavesNoEntry ==
  \A r \in ReqIdx :
    (Live(r) /\ reqs[r].out.kind = "Timeout") => pending[reqs[r].id] = 0

\* C5: a Call that is pending when the child has exited eventually returns
\* (unless the program has panicked).
IsPending(r) == Live(r) /\ reqs[r].pc \in {"write", "write2", "wait"}

ExitResolvesPending ==
  \A r \in ReqIdx :
    [](IsPending(r) /\ child = "exited" => <>(Returned(r) \/ Halted))

\* C6: per request id at most one Call returns a response, no response of
\* the server is returned by two Calls, and a Call has an outcome exactly
\* when it has returned, which is then its only one.
SingleDelivery ==
  /\ \A r, q \in ReqIdx :
       (Live(r) /\ Live(q) /\ r # q
          /\ reqs[r].out.kind = "Response" /\ reqs[q].out.kind = "Response")
       => (reqs[r].id # reqs[q].id /\ reqs[r].out.resp.id # reqs[q].out.resp.id)
  /\ \A r \in ReqIdx :
       Live(r) =>
         /\ reqs[r].pc = "ret" <=> reqs[r].out.kind # "none"
         /\ reqs[r].out.kind # "Response" => reqs[r].out.resp = NoResp
         /\ Len(reqs[r].chan) <= ChanCap

\* the response of a request was delivered while its timer fired: the Call
\* returned the timeout and the response stays behind in the channel
SingleDeliveryWitness ==
  \E r \in ReqIdx : Live(r) /\ reqs[r].out.kind = "Timeout" /\ reqs[r].chan # <<>>

\* C7: a Call to a server that writes nothing eventually returns (unless
\* the program has panicked).
EffectiveTimeout ==
  \A r \in ReqIdx :
    [](Live(r) /\ env.lines = {} => <>(Returned(r) \/ Halted))

\* C8: no line of the child makes the dispatcher panic.
DispatcherSurvives == crashed # "nilMapAssert"

\* C9: the fragments of a request line on the child's stdin are not mixed
\* with those of another line.
WholeLine(q) == q = <<>> \/ q = << <<q[1][1], 1>>, <<q[1][1], 2>> >>

NotRunningNoEffect ==
  [][/\ ~running => (nextID' = nextID /\ Len(reqs') = Len(reqs))
     /\ rejected' # rejected =>
          (~running /\ UNCHANGED <<nextID, pending, reqs, stdin, childRead>>)]_vars

\* a Call has returned the not-running error
NotRunningNoEffectWitness == rejected

\* C11 (as amended): a Call that has returned the write error has no entry
\* in the table, then and ever after; so the delete of its timer callback,
\* if that callback had started already, finds nothing to delete.
WriteErrorLeavesNoEntry ==
  \A r \in ReqIdx :
    (Live(r) /\ reqs[r].out.kind = "WriteError") => pending[reqs[r].id] = 0

\* the write of a Call has failed while its timer callback was running,
\* and the callback has closed done after the Call returned
WriteErrorLeavesNoEntryWitness ==
  \E r \in ReqIdx :
    Live(r) /\ reqs[r].out.kind = "WriteError" /\ reqs[r].done = ClosedByTimer

\* C11 (as stated): moreover no timer callback of such a Call is still
\* under way, which would go on to close done.
WriteErrorStopsTimer ==
  \A r \in ReqIdx :
    (Live(r) /\ reqs[r].out.kind = "WriteError")
    => (pending[reqs[r].id] = 0 /\ reqs[r].timer \notin {"fired", "unlocked"})

\* C12: a Call whose done channel was closed by the exit waiter does not
\* return the error that a timeout returns.
ExitErrorDistinct ==
  \A r \in ReqIdx :
    (Live(r) /\ reqs[r].done = ClosedByExit) => reqs[r].out.kind # "Timeout"

\* C13: when the dispatcher reads a notification naming a method, the
\* handler registered for the method is started, once, and nothing is
\* started when there is none; the program goes on.
IsNotification(l) == ~l.bad /\ l.id = NoId /\ l.meth \in Methods

NotificationInvokesHandler ==
  [][\A g \in Gens :
       (DispRead(g) /\ stdoutQ[g] # <<>> /\ IsNotification(Head(stdoutQ[g])))
       => LET m == Head(stdoutQ[g]).meth IN
          /\ crashed' = crashed
          /\ invoked' = IF handlers[m] # "none"
                        THEN Append(invoked, <<m, handlers[m]>>)
                        ELSE invoked]_vars

\* C14: the dispatcher is at no time inside a handler, and with handler
\* goroutines started (none of which ever returns) it still takes the next
\* line out of the pipe.
DispatcherNotStalled ==
  \A g \in Gens :
    /\ disp[g].pc \in {"off", "scan", "deliver", "delete", "ended"}
    /\ (~Halted /\ invoked # <<>> /\ disp[g].pc = "scan" /\ stdoutQ[g] # <<>>)
       => ENABLED DispRead(g)

\* a handler was started, and the dispatcher is handing a later response
\* to its pending Call
DispatcherNotStalledWitness ==
  /\ invoked # <<>>
  /\ \E g \in Gens : disp[g].pc = "deliver" /\ ~Returned(disp[g].req)

\* C15: the dispatcher hands a line only to a Call whose entry it found in
\* the table under the id of the line; a line with any other id finds no
\* Call.
UnknownIdNotDelivered ==
  \A g \in Gens :
    disp[g].pc = "deliver"
    => disp[g].line.id = NumId(2 * reqs[disp[g].req].id)

\* C16: the response a Call returns has an id numerically equal to the id
\* of its request; neither 1.5 nor "1" is returned by the Call with id 1.
CanonicalIdMatch ==
  \A r \in ReqIdx :
    (Live(r) /\ reqs[r].out.kind = "Response")
    => reqs[r].out.resp.id = NumId(2 * reqs[r].id)

\* C17: the step of Start that sends notifications/initialized allocates
\* no id, creates no pendingRequest and does not wait for a response.
NotificationNoId ==
  [][(mainPc = "call2" /\ mainPc' # "call2")
     => (nextID' = nextID /\ Len(reqs') = Len(reqs) /\ mainPc' # "incall")]_vars

\* C18: the ids handed out so far are InitialNextID, InitialNextID + 1, ...
\* in the order of their allocation, and the counter is one past the last.
IdsIncreasing ==
  /\ nextID = InitialNextID + Len(reqs)
  /\ \A r \in ReqIdx : Live(r) => reqs[r].id = InitialNextID + r - 1

\* an id was handed out to the initialize Call of a second Start, after the
\* first child had exited
IdsIncreasingWitness ==
  gen = 2 /\ Len(reqs) = 2 /\ reqs[1].ctx = "init" /\ reqs[2].ctx = "init"

\* C19: a Call that takes a response with a JSON-RPC error out of its
\* channel returns exactly that response, with no error of its own; the
\* step neither panics nor sends the request again.
ErrorResponseReturned ==
  [][\A r \in ReqIdx :
       (Live(r) /\ reqs[r].pc = "wait" /\ reqs'[r].pc = "ret"
          /\ reqs[r].chan # <<>> /\ reqs'[r].chan # reqs[r].chan
          /\ Head(reqs[r].chan).err = "error")
       => /\ reqs'[r].out = [kind |-> "Response", resp |-> Head(reqs[r].chan)]
          /\ crashed' = crashed
          /\ nextID' = nextID /\ Len(reqs') = Len(reqs)
          /\ UNCHANGED <<pending, inpipe>>]_vars

\* a Call has returned a response that carries the server's error
ErrorResponseReturnedWitness ==
  \E r \in ReqIdx :
    Live(r) /\ reqs[r].out = [kind |-> "Response", resp |-> Line(NumId(2), "nil", "error")]

\* C20: a Call that returns while the response is in its channel and its
\* timer has not fired returns the response.
ResponseBeatsTimer ==
  [][\A r \in ReqIdx :
       (Live(r) /\ reqs[r].pc = "wait" /\ reqs'[r].pc = "ret"
          /\ reqs[r].chan # <<>>
          /\ reqs[r].timer \in {"armed", "off"} /\ reqs[r].done # ClosedByTimer)
       => reqs'[r].out.kind = "Response"]_vars

\* the Call r returns in this step, and what it returns is no successful
\* handshake
ReturnsNow(r) == Live(r) /\ reqs[r].pc # "ret" /\ reqs'[r].pc = "ret"
GoodCaps(o) == o.kind = "Response" /\ o.resp.err = "nil" /\ o.resp.res = "caps"

\* C21: when the initialize Call of Start fails (error response, result
\* without capabilities, timeout or write error), Start goes on to install
\* the exit waiter; and when Start has installed the waiter it returns nil
\* with the engine running, the dispatcher started and the waiter waiting.
NegotiationNotFatal ==
  [][(\A r \in ReqIdx :
        (ReturnsNow(r) /\ reqs[r].ctx = "init" /\ ~GoodCaps(reqs'[r].out))
        => (mainPc' = "waiter" /\ running' /\ startRet' = startRet))
     /\ ((mainPc = "waiter" /\ mainPc' # "waiter")
         => (mainPc' = "idle" /\ startRet' = "ok" /\ running'
             /\ waiter'[gen'] = "waiting"
             /\ disp'[gen'].pc \in {"scan", "deliver", "delete", "ended"}))]_vars

\* Start has returned nil after the server answered initialize with an error
NegotiationNotFatalWitness ==
  /\ mainPc = "idle" /\ startRet = "ok" /\ running
  /\ Live(1) /\ reqs[1].ctx = "init"
  /\ reqs[1].out.kind = "Response" /\ reqs[1].out.resp.err = "error"
  /\ waiter[1] = "waiting" /\ disp[1].pc = "scan"

\* C22: once Stop has gone through on a running engine, the engine
\* eventually is stopped: the running flag is false and the dispatcher of
\* the current command has ended (or the program has panicked).
StopReachesStopped ==
  [](stopRet \in {"ok", "KillError"}
     => <>(Halted \/ (~running /\ gen > 0 /\ disp[gen].pc = "ended")))

\* C23: a Stop on an engine that is not running returns the not-running
\* error and changes nothing: not the running flag, the pending table, the
\* handlers, the capabilities, the requests, the process or the pipes.
StopNotRunningRefused ==
  [][(Stop /\ ~running)
     => (stopRet' = "NotRunning"
         /\ UNCHANGED <<engine, reqs, proc, inpipe, outpipe, disp, waiter,
                        starter, crashed>>)]_vars

\* Stop was refused on an engine that had been started and has stopped
StopNotRunningRefusedWitness ==
  stopRet = "NotRunning" /\ ~running /\ gen = 1 /\ handlers[ListChanged] # "none"

\* C24: the stored capabilities change only in the step in which an
\* initialize Call returns a response without error that carries a
\* capabilities map, and then they are what the server advertised; an
\* initialize Call that returns anything else leaves them as they are.
CapabilitiesOnlyOnHandshake ==
  [][(capabilities' # capabilities
        => (\E r \in ReqIdx :
              ReturnsNow(r) /\ reqs[r].ctx \in {"init", "uinit"}
              /\ GoodCaps(reqs'[r].out)))
     /\ (\A r \in ReqIdx :
          (ReturnsNow(r) /\ reqs[r].ctx \in {"init", "uinit"})
          => (IF GoodCaps(reqs'[r].out)
              THEN capabilities' = "server"
              ELSE capabilities' = capabilities))]_vars

\* the capabilities of the server are stored after a successful handshake
CapabilitiesOnlyOnHandshakeWitness ==
  /\ capabilities = "server"
  /\ Live(1) /\ reqs[1].ctx = "init" /\ GoodCaps(reqs[1].out)

\* C25: GetCapabilities on an engine that is not running returns the
\* default set, and allocates no id, makes no request, registers nothing,
\* writes nothing to the child and leaves the stored capabilities alone.
DefaultWhenNotRunning ==
  [][(GetCapabilities /\ mainPc = "idle" /\ ~running)
     => (capsRet' = "default"
         /\ UNCHANGED <<engine, reqs, proc, inpipe, outpipe, mainPc, crashed>>)]_vars

\* the default set was returned by an engine whose child has exited
DefaultWhenNotRunningWitness ==
  capsRet = "default" /\ ~running /\ gen = 1 /\ child = "exited"

\* the tools in the registry
Registered == {toolRegistry[n] : n \in ToolNames} \ {NoTool}

\* C26: what ListTools returns on an engine that is not running is, after
\* any RegisterTool calls, one descriptor for each tool in the registry and
\* nothing else, each with the tool's name, description and schema.
ListsRegistry ==
  ret.kind = "ListTools"
  => /\ ret.err = "nil"
     /\ Len(ret.value) = Cardinality(Registered)
     /\ {ret.value[i] : i \in DOMAIN ret.value}
          = {[name |-> t.name, description |-> t.description,
              inputSchema |-> t.schema] : t \in Registered}

\* two tools are registered and listed
ListsRegistryWitness ==
  ret.kind = "ListTools" /\ Len(ret.value) = Cardinality(ToolNames)

\* C27: a CallTool on an engine that is not running, for a registered tool
\* whose Execute returns an error, returns a nil error and a result with
\* IsError true and a text item that holds the text of the error.
HandlerErrorCaptured ==
  (/\ arg = ToolsArg /\ ret.kind = "CallTool"
   /\ toolRegistry[ret.name] # NoTool /\ toolRegistry[ret.name].fails
   /\ ret.err # "MarshalError")
  => /\ ret.err = "nil"
     /\ ret.value.isError
     /\ \E i \in DOMAIN ret.value.content :
          /\ ret.value.content[i].type = "text"
          /\ ret.value.content[i].text[2] = Execute(toolRegistry[ret.name]).err

\* the handler of a registered tool has failed and CallTool has returned
HandlerErrorCapturedWitness ==
  /\ arg = ToolsArg /\ ret.kind = "CallTool"
  /\ toolRegistry[ret.name].fails /\ ret.err = "nil" /\ ret.value.isError

\* C28: when the result of tools/call holds exactly one content item and
\* that item is a text item, CallTool returns a ToolResult whose Result is
\* the text of the item.
SingleTextFlattened ==
  (/\ arg.kind = "toolresult" /\ ret.kind = "CallTool"
   /\ Len(arg.content) = 1 /\ arg.content[1].type = "text")
  => (ret.err = "nil" /\ ret.value.result = arg.content[1].text)

\* C29: of the well-typed responses, ParseResponse rejects the one that has
\* a result member and an error object and the one that has neither, and
\* accepts the one of version 2.0 that has exactly one of the two.  (A
\* result may be any JSON value, null included; an error is an object.)
ExactlyOneOfResultAndError ==
  (/\ arg.kind = "response" /\ ret.kind = "ParseResponse"
   /\ arg.json /\ ~Mismatch(arg.jsonrpc, "string") /\ ~Mismatch(arg.error, "object"))
  => LET hasResult == arg.result # JAbsent
         hasError == arg.error = ErrorObject IN
     /\ (hasResult /\ hasError) => ret.err # "nil"
     /\ (~hasResult /\ ~hasError) => ret.err # "nil"
     /\ (arg.jsonrpc = JString(Version) /\ hasResult # hasError) => ret.err = "nil"

LastHandlerWins ==
  [][/\ handlers' = registered'
     /\ (invoked' # invoked
          => \E m \in Methods :
               /\ registered[m] # "none"
               /\ invoked' = Append(invoked, <<m, registered[m]>>))]_vars

\* two notifications of one method were served by two handlers, the second
\* registered after the first had been invoked
LastHandlerWinsWitness ==
  /\ Len(invoked) = 2
  /\ invoked[1] = <<ListChanged, "user">> /\ invoked[2] = <<ListChanged, "user2">>
  /\ handlers[ListChanged] = "user2"

\* C32: when Start has returned a startup error, the engine is not running.
FailedStartNotRunning ==
  (mainPc = "idle" /\ startRet = "StartupError") => ~running

\* C36: a handler of the user is replaced only by a handler of the user.
UserHandlerKept ==
  [][\A m \in Methods :
       (handlers[m] \in UserHandlers /\ handlers'[m] # handlers[m])
       => handlers'[m] \in UserHandlers]_vars

\* C37: Stop returns no error on account of a child that has exited.
StopToleratesExited == stopRet # "KillError"

\* Start is under way: between its running check and its return
InStart ==
  \/ mainPc \in {"spawn", "call", "call2", "waiter"}
  \/ /\ mainPc = "incall"
     /\ \E r \in ReqIdx : Live(r) /\ reqs[r].ctx \in {"init", "notif"} /\ reqs[r].pc # "ret"

\* C38: once the child is spawned, Start returns (or the program panics).
StartReturns ==
  [](InStart /\ mainPc # "spawn" => <>(~InStart \/ Halted))

\* C39: there is at most one dispatcher at work and at most one exit waiter
\* at work at any time.
AtMostOneOfEach ==
  /\ Cardinality({g \in Gens : disp[g].pc \in {"scan", "deliver", "delete"}}) <= 1
  /\ Cardinality({g \in Gens : waiter[g] \in {"waiting", "cleanup"}}) <= 1

\* C33: a Response that a Call has returned has exactly one of result and
\* error.
ExactlyOneReturned ==
  \A r \in ReqIdx :
    (Live(r) /\ reqs[r].out.kind = "Response")
    => ((reqs[r].out.resp.res = "nil") # (reqs[r].out.resp.err = "nil"))

\* C35: ListTools and CallTool never return the not-running error.
ToolsNeverNotRunning == toolRet # "NotRunningError"

\* C34: a CallTool on an engine that is not running returns a nil error.
LocalCallNeverRaises ==
  (arg = ToolsArg /\ ret.kind = "CallTool") => ret.err = "nil"

\* C40: the flag of StdioMCP becomes true only by an Initialize that returns
\* nil and false only by a Shutdown; while it is false GetTools and
\* ReadResponse return the not-initialized error and they and Shutdown
\* (which returns nil) change nothing else; while it is true Initialize
\* returns nil and starts no process.
InitializedBetween ==
  [][/\ (~stdio.initialized /\ stdio'.initialized)
          => (stdio'.ret = StdioRet("Initialize", "nil")
              /\ stdio'.spawned = stdio.spawned + 1 /\ stdio'.child = "alive")
     /\ (stdio.initialized /\ ~stdio'.initialized) => stdio'.ret.op = "Shutdown"
     /\ (~stdio.initialized /\ GetTools)
          => stdio' = [stdio EXCEPT !.ret = StdioRet("GetTools", "NotInitialized")]
     /\ (~stdio.initialized /\ ReadResponse)
          => stdio' = [stdio EXCEPT !.ret = StdioRet("ReadResponse", "NotInitialized")]
     /\ (~stdio.initialized /\ \E st \in {"nil", "ExitError"} : Shutdown(st))
          => stdio' = [stdio EXCEPT !.ret = StdioRet("Shutdown", "nil")]
     /\ (stdio.initialized /\ \E o \in {"ok", "pipeFail", "startFail"} : Initialize(o))
          => stdio' = [stdio EXCEPT !.ret = StdioRet("Initialize", "nil")]
     /\ (~stdio.initialized /\ \E o \in {"pipeFail", "startFail"} : Initialize(o))
          => (~stdio'.initialized /\ stdio'.ret.err # "nil"
              /\ stdio'.spawned = stdio.spawned)]_vars

\* after a failed Initialize, a successful one and a Shutdown, GetTools is
\* refused on a provider that has started one process
InitializedBetweenWitness ==
  /\ ~stdio.initialized /\ stdio.spawned = 1 /\ stdio.child = "exited"
  /\ stdio.ret = StdioRet("GetTools", "NotInitialized")

====
